---- MODULE Spec2Model ----
(***************************************************************************)
(* A model of the pdf_ai pipeline: pdf_reader.py (PDF -> text artifacts),  *)
(* ai.py (text artifacts -> grouped, concurrently extracted, validated and  *)
(* merged CSV files) and main.py (the two-stage orchestrator).              *)
(*                                                                          *)
(* Python strings are sequences of one-character strings, so that split,    *)
(* strip, count, startswith, replace and int() are computed as Python       *)
(* computes them.  Python dicts (insertion ordered) are sequences of        *)
(* <<key, value>> pairs.                                                    *)
(***************************************************************************)
EXTENDS Integers, Sequences, FiniteSets, TLC

VARIABLES
    \* validate_csv_row applied to one line (SpecValidate)
    row, cleaned_row, vpc,
    \* group_files / sorted(files, key=extract_page_number) (SpecGroup, Spec)
    txt_exists, listing, groups, sortedGroups, gpc,
    \* ai.py main(): the coordinating thread
    pc, exam, sorted_files, submitted, results, all_rows, all_exam_data,
    successful_conversions, files, writes,
    \* ai.py: the ThreadPoolExecutor of one exam
    queue, running, finished, yielded,
    \* the pages whose process_page caught an exception, what each page's
    \* process_page returned, and what was merged for each exam
    failed, returned, merged,
    \* main.py and pdf_reader.py (SpecOrch)
    opc, oexit, rpc, rexit, rerror, save_mode, pdf_dir, pdf_files, pidx,
    page_num, page_count, extracted_text, txt_dir, visited, open_failed,
    ai_started

vvars == <<row, cleaned_row, vpc>>
gvars == <<txt_exists, listing, groups, sortedGroups, gpc>>
mvars == <<pc, exam, sorted_files, submitted, results, all_rows, all_exam_data,
           successful_conversions, files, writes>>
pvars == <<queue, running, finished, yielded>>
hvars == <<failed, returned, merged>>
ovars == <<opc, oexit, rpc, rexit, rerror, save_mode, pdf_dir, pdf_files, pidx,
           page_num, page_count, extracted_text, txt_dir, visited,
           open_failed, ai_started>>
vars == <<vvars, gvars, mvars, pvars, hvars, ovars>>

----------------------------------------------------------------------------
\* Python str operations on sequences of characters

\* The characters str.strip() removes (those of the model's alphabet).
Whitespace == {" ", "\t", "\n", "\r"}

\* The line boundaries str.splitlines() knows (those of the model's alphabet).
LineBreaks == {"\n", "\r"}

Digits == <<"0", "1", "2", "3", "4", "5", "6", "7", "8", "9">>

\* The least member of a non-empty set of integers
Min(S) == CHOOSE x \in S : \A y \in S : x <= y

\* str.strip(): from the first to the last character that is not whitespace
Strip(s) ==
    LET n == Len(s)
        solid == {i \in 1..n : s[i] \notin Whitespace}
        fromEnd == {k \in 1..n : s[n + 1 - k] \notin Whitespace}
    IN  IF solid = {} THEN <<>> ELSE SubSeq(s, Min(solid), n + 1 - Min(fromEnd))

\* str.startswith(prefix)
StartsWith(s, prefix) ==
    Len(prefix) <= Len(s) /\ SubSeq(s, 1, Len(prefix)) = prefix

\* str.endswith(suffix)
EndsWith(s, suffix) ==
    Len(suffix) <= Len(s) /\ SubSeq(s, Len(s) - Len(suffix) + 1, Len(s)) = suffix

\* str.find(sub, start): the least index >= start where sub occurs, else 0
Find(s, sub, start) ==
    LET hits == {i \in start..(Len(s) - Len(sub) + 1) :
                    SubSeq(s, i, i + Len(sub) - 1) = sub}
    IN  IF hits = {} THEN 0 ELSE Min(hits)

\* sub in s
Contains(s, sub) == Find(s, sub, 1) # 0

\* str.count(c) for a one-character c
Count(s, c) == Cardinality({i \in 1..Len(s) : s[i] = c})

\* str.split(sep), sep non-empty: the parts between the occurrences of sep
RECURSIVE Split(_, _)
Split(s, sep) ==
    LET i == Find(s, sep, 1)
    IN  IF i = 0 THEN <<s>>
        ELSE <<SubSeq(s, 1, i - 1)>> \o Split(SubSeq(s, i + Len(sep), Len(s)), sep)

\* str.replace(old, new), old non-empty: every occurrence, left to right
RECURSIVE Replace(_, _, _)
Replace(s, old, new) ==
    LET i == Find(s, old, 1)
    IN  IF i = 0 THEN s
        ELSE SubSeq(s, 1, i - 1) \o new
             \o Replace(SubSeq(s, i + Len(old), Len(s)), old, new)

\* str.splitlines(): "\r\n" is one boundary; no empty last line
RECURSIVE SplitLinesFrom(_, _)
SplitLinesFrom(s, i) ==
    IF i > Len(s) THEN <<>>
    ELSE LET breaks == {j \in i..Len(s) : s[j] \in LineBreaks}
             j == Min(breaks)
         IN  IF breaks = {} THEN <<SubSeq(s, i, Len(s))>>
             ELSE <<SubSeq(s, i, j - 1)>>
                  \o SplitLinesFrom(s, IF s[j] = "\r" /\ j < Len(s) /\ s[j + 1] = "\n"
                                       THEN j + 2 ELSE j + 1)

SplitLines(s) == SplitLinesFrom(s, 1)

\* str.lower() on the letters of the model's alphabet
LowerChar(c) ==
    CASE c = "P" -> "p" [] c = "D" -> "d" [] c = "F" -> "f" [] OTHER -> c

Lower(s) == [i \in 1..Len(s) |-> LowerChar(s[i])]

\* The value of a decimal digit
DigitValue(c) == (CHOOSE i \in 1..10 : Digits[i] = c) - 1

IsDigit(c) == \E i \in 1..10 : Digits[i] = c

\* The digits of an int literal: digits, single underscores only between them
DigitsOk(s) ==
    /\ s # <<>>
    /\ \A i \in 1..Len(s) : IsDigit(s[i]) \/ s[i] = "_"
    /\ IsDigit(s[1]) /\ IsDigit(s[Len(s)])
    /\ \A i \in 1..(Len(s) - 1) : ~(s[i] = "_" /\ s[i + 1] = "_")

RECURSIVE DigitsValue(_, _)
DigitsValue(s, n) ==
    IF n = 0 THEN 0
    ELSE IF s[n] = "_" THEN DigitsValue(s, n - 1)
    ELSE 10 * DigitsValue(s, n - 1) + DigitValue(s[n])

\* The unsigned part of what int() is given: after the strip and the sign
IntBody(s) ==
    LET t == Strip(s)
    IN  IF t # <<>> /\ Head(t) \in {"+", "-"} THEN Tail(t) ELSE t

\* int(s) raises ValueError exactly when this is FALSE
IntParses(s) == DigitsOk(IntBody(s))

\* int(s) when it parses
IntValue(s) ==
    LET t == Strip(s)
        v == DigitsValue(IntBody(s), Len(IntBody(s)))
    IN  IF t # <<>> /\ Head(t) = "-" THEN 0 - v ELSE v

\* str(n) of a natural number (an f-string's {n})
RECURSIVE ToStr(_)
ToStr(n) ==
    IF n < 10 THEN <<Digits[n + 1]>>
    ELSE ToStr(n \div 10) \o <<Digits[(n % 10) + 1]>>

\* sep.join(parts)
RECURSIVE Join(_, _)
Join(parts, sep) ==
    IF parts = <<>> THEN <<>>
    ELSE IF Len(parts) = 1 THEN parts[1]
    ELSE parts[1] \o sep \o Join(Tail(parts), sep)

\* The concatenation of a sequence of sequences
RECURSIVE Flatten(_)
Flatten(ss) == IF ss = <<>> THEN <<>> ELSE Head(ss) \o Flatten(Tail(ss))

\* The members of a sequence
Range(s) == {s[i] : i \in 1..Len(s)}

\* The sequences that list every member of a finite set once, in any order
RECURSIVE Orderings(_)
Orderings(S) ==
    IF S = {} THEN {<<>>}
    ELSE UNION {{<<x>> \o t : t \in Orderings(S \ {x})} : x \in S}

----------------------------------------------------------------------------
\* Python dicts, in insertion order, as sequences of <<key, value>>

Keys(d) == [i \in 1..Len(d) |-> d[i][1]]

HasKey(d, k) == \E i \in 1..Len(d) : d[i][1] = k

Get(d, k) == d[CHOOSE i \in 1..Len(d) : d[i][1] = k][2]

\* d[k] = v
DictSet(d, k, v) ==
    IF HasKey(d, k)
    THEN [i \in 1..Len(d) |-> IF d[i][1] = k THEN <<k, v>> ELSE d[i]]
    ELSE Append(d, <<k, v>>)

\* defaultdict(list): d[k].append(v)
DictAppend(d, k, v) ==
    IF HasKey(d, k) THEN DictSet(d, k, Append(Get(d, k), v))
    ELSE Append(d, <<k, <<v>>>>)

----------------------------------------------------------------------------
\* String constants of the source

PageSep == <<"_", "p", "a", "g", "e", "_">>
TxtExt == <<".", "t", "x", "t">>
PdfExt == <<".", "p", "d", "f">>
CsvExt == <<".", "c", "s", "v">>
Comma == ","
NotePrefix == <<"N", "o", "t", "e", ":">>
CsvOutputMarker == <<"C", "S", "V", " ", "O", "U", "T", "P", "U", "T">>
header ==
    <<"q", "u", "e", "s", "t", "i", "o", "n", ",", "m", "a", "r", "k", "s", ",",
      "p", "a", "p", "e", "r", "_", "t", "i", "t", "l", "e", ",",
      "f", "i", "l", "e", "n", "a", "m", "e", ",", "p", "a", "g", "e", ",",
      "y", "e", "a", "r">>
combined_name ==
    <<"a", "l", "l", "_", "e", "x", "a", "m", "s", "_",
      "c", "o", "m", "b", "i", "n", "e", "d", ".", "c", "s", "v">>

\* Python's None, and a returned str s, as values of one kind
None == <<>>
Some(s) == <<s>>

----------------------------------------------------------------------------
\* ai.py: the Validator

\* The least number of commas a row of 6 fields has
MinCommas == 5

\* A faulty variant of validate_csv_row: returns the row as given, without the strip
validate_csv_row_nostrip(r) ==
    IF Strip(r) = <<>> THEN None
    ELSE IF StartsWith(r, <<"#">>) \/ StartsWith(r, NotePrefix)
            \/ Contains(r, CsvOutputMarker) THEN None
    ELSE IF Count(r, Comma) < MinCommas THEN None
    ELSE Some(r)

validate_csv_row(r) ==
    IF Strip(r) = <<>> THEN None
    ELSE IF StartsWith(r, <<"#">>) \/ StartsWith(r, NotePrefix)
            \/ Contains(r, CsvOutputMarker) THEN None
    ELSE IF Count(r, Comma) < MinCommas THEN None
    ELSE Some(Strip(r))


----------------------------------------------------------------------------
\* ai.py: the Grouper

RECURSIVE group_files_from(_, _)
group_files_from(names, acc) ==
    IF names = <<>> THEN acc
    ELSE LET filename == Head(names)
             next ==
                 IF EndsWith(filename, TxtExt)
                 THEN IF Contains(filename, PageSep)
                      THEN DictAppend(acc, Split(filename, PageSep)[1], filename)
                      ELSE DictAppend(acc, Replace(filename, TxtExt, <<>>), filename)
                 ELSE acc
         IN  group_files_from(Tail(names), next)

\* group_files(): names is os.listdir(txt_folder), in the order it gives them
group_files(exists, names) ==
    IF ~exists THEN <<>> ELSE group_files_from(names, <<>>)

extract_page_number(filename) ==
    IF Contains(filename, PageSep)
    THEN LET digits == Split(Split(filename, PageSep)[2], <<".">>)[1]
         IN  IF IntParses(digits) THEN IntValue(digits) ELSE 1
    ELSE 1

\* One step of a stable sort: f goes before the first member whose key is greater
InsertByPage(sorted, f) ==
    LET later == {i \in 1..Len(sorted) :
                     extract_page_number(sorted[i]) > extract_page_number(f)}
        at == IF later = {} THEN Len(sorted) + 1
              ELSE CHOOSE i \in later : \A j \in later : i <= j
    IN  SubSeq(sorted, 1, at - 1) \o <<f>> \o SubSeq(sorted, at, Len(sorted))

RECURSIVE SortFrom(_, _)
SortFrom(fs, acc) ==
    IF fs = <<>> THEN acc ELSE SortFrom(Tail(fs), InsertByPage(acc, Head(fs)))

\* sorted(files, key=extract_page_number): stable
sorted_by_page(fs) == SortFrom(fs, <<>>)


----------------------------------------------------------------------------
\* ai.py: the Rows Extractor (process_page) and the language model it calls

\* What one call of process_page meets: the read of the page text, and the
\* language model's reply
ReadError == [read_ok |-> FALSE, text |-> <<>>, api_ok |-> FALSE, content |-> <<>>]
EmptyFile == [read_ok |-> TRUE, text |-> <<" ", "\n">>, api_ok |-> FALSE, content |-> <<>>]
ApiError == [read_ok |-> TRUE, text |-> <<"t">>, api_ok |-> FALSE, content |-> <<>>]
Reply(c) == [read_ok |-> TRUE, text |-> <<"t">>, api_ok |-> TRUE, content |-> c]

\* The most data rows one reply of the language model holds
MaxRows == 1

\* A row as the prompt asks for it: the j-th question of the page, with the
\* exam's filename (rule 5) and the page number (rule 6) as the prompt gave them
DataRow(exam_prefix, page_number, j) ==
    <<"q">> \o ToStr(j) \o <<",", "5", ",", "t", ",">> \o exam_prefix \o PdfExt
    \o <<",">> \o ToStr(page_number) \o <<",", "y">>

\* The replies of the language model to the prompt of one page: k data rows;
\* and a reply that echoes the header line and the prompt's output label before
\* a padded row, a blank line, a comment and a short line
Replies(exam_prefix, page_number) ==
    {Join([j \in 1..k |-> DataRow(exam_prefix, page_number, j)], <<"\n">>) :
        k \in 1..MaxRows}
    \cup {header \o <<"\n", "#", " ">> \o CsvOutputMarker \o <<"\n", " ">>
          \o DataRow(exam_prefix, page_number, 1)
          \o <<" ", "\r", "\n", "\n", "#", "x", "\n", "q", ",", "5", " ">>}

Environments(exam_prefix, page_number) ==
    {ReadError, EmptyFile, ApiError}
    \cup {Reply(c) : c \in Replies(exam_prefix, page_number)}

\* process_page caught an exception: of the read, or of the language-model call
Raised(env) == ~env.read_ok \/ (Strip(env.text) # <<>> /\ ~env.api_ok)

\* process_page: <<filename, csv_output>>
process_page(exam_prefix, filename, page_number, env) ==
    IF ~env.read_ok THEN <<filename, <<>>>>
    ELSE IF Strip(env.text) = <<>> THEN <<filename, <<>>>>
    ELSE IF env.api_ok THEN <<filename, Strip(env.content)>>
    ELSE <<filename, <<>>>>

----------------------------------------------------------------------------
\* ai.py: the Merger

\* The rows of one page's output that validate_csv_row accepts, cleaned
RECURSIVE CleanedRows(_)
CleanedRows(rows) ==
    IF rows = <<>> THEN <<>>
    ELSE LET cleaned == validate_csv_row(Head(rows))
         IN  (IF cleaned # None /\ cleaned[1] # <<>> THEN cleaned ELSE <<>>)
             \o CleanedRows(Tail(rows))

RECURSIVE MergeFrom(_, _, _)
MergeFrom(res, fs, acc) ==
    IF fs = <<>> THEN acc
    ELSE LET filename == Head(fs)
         IN  IF HasKey(res, filename) /\ Get(res, filename) # <<>>
             THEN MergeFrom(res, Tail(fs),
                            acc \o CleanedRows(SplitLines(Get(res, filename))))
             ELSE MergeFrom(res, Tail(fs), acc)

\* A faulty variant of merge_csv_data: the pages in the order their results arrived
merge_csv_data_arrival(res, fs) == MergeFrom(res, Keys(res), <<header>>)

\* A faulty variant of merge_csv_data: stops at the first page without output
RECURSIVE MergeUntilEmpty(_, _, _)
MergeUntilEmpty(res, fs, acc) ==
    IF fs = <<>> THEN acc
    ELSE IF HasKey(res, Head(fs)) /\ Get(res, Head(fs)) # <<>>
         THEN MergeUntilEmpty(res, Tail(fs),
                  acc \o CleanedRows(SplitLines(Get(res, Head(fs)))))
         ELSE acc

merge_csv_data_break(res, fs) == MergeUntilEmpty(res, fs, <<header>>)

\* merge_csv_data(results, sorted_files)
merge_csv_data(res, fs) == MergeFrom(res, fs, <<header>>)

\* What f.write(row + "\n") for each row leaves in the file
FileText(rows) == Flatten([i \in 1..Len(rows) |-> rows[i] \o <<"\n">>])

\* files with path holding text
WriteFile(fsys, path, text) ==
    [p \in DOMAIN fsys \cup {path} |-> IF p = path THEN text ELSE fsys[p]]

\* How opening and writing a file can end: written; open() raised, the file is
\* as it was; a write raised, the file holds the k rows written before it (none,
\* or all but the last)
IoOutcomes(rows) ==
    {[io |-> "ok", k |-> Len(rows)], [io |-> "open_error", k |-> 0]}
    \cup {[io |-> "write_error", k |-> k] : k \in {0, Len(rows) - 1}}

\* save_individual_csv's decision in main(): a faulty variant saves every exam
ShouldSaveAlways(rows) == TRUE

\* main(): if len(all_rows) > 1
ShouldSave(rows) == Len(rows) > 1

\* The rows save_combined_csv writes under the header: rows[1:] of every exam
RECURSIVE CombinedRows(_)
CombinedRows(data) ==
    IF data = <<>> THEN <<>>
    ELSE LET rows == Head(data)[2]
         IN  SelectSeq(Tail(rows), LAMBDA r : Strip(r) # <<>>)
             \o CombinedRows(Tail(data))


----------------------------------------------------------------------------
\* The variables a specification does not use stay as they are here

ValidatorOff == row = <<>> /\ cleaned_row = None /\ vpc = "off"

GrouperOff ==
    /\ txt_exists = FALSE /\ listing = <<>> /\ groups = <<>>
    /\ sortedGroups = <<>> /\ gpc = "off"

MainOff ==
    /\ pc = "off" /\ exam = 0 /\ sorted_files = <<>> /\ submitted = 0
    /\ results = <<>> /\ all_rows = <<>> /\ all_exam_data = <<>>
    /\ successful_conversions = 0
    /\ files = <<>> /\ writes = <<>>
    /\ queue = <<>> /\ running = {} /\ finished = {} /\ yielded = {}
    /\ failed = {} /\ returned = {} /\ merged = <<>>

OrchOff ==
    /\ opc = "off" /\ oexit = -1 /\ rpc = "off" /\ rexit = -1 /\ rerror = "none"
    /\ save_mode = "separate" /\ pdf_dir = <<>> /\ pdf_files = <<>> /\ pidx = 0
    /\ page_num = 0 /\ page_count = 0 /\ extracted_text = <<>> /\ txt_dir = <<>>
    /\ visited = {} /\ open_failed = {} /\ ai_started = FALSE

----------------------------------------------------------------------------
\* ai.py: main() and the thread pool of one exam

\* ThreadPoolExecutor(max_workers=3)
max_workers == 3

\* The file names of the text-artifact directory in the runs of main()
A1 == <<"a">> \o PageSep \o <<"1">> \o TxtExt
A2 == <<"a">> \o PageSep \o <<"2">> \o TxtExt
A3 == <<"a">> \o PageSep \o <<"3">> \o TxtExt
A10 == <<"a">> \o PageSep \o <<"1", "0">> \o TxtExt
Bplain == <<"b">> \o TxtExt
Cmd == <<"c", ".", "m", "d">>

\* The directories main() is run on, each as os.listdir gives it: an exam of
\* three pages and a document without pages; an exam of four pages (more than
\* the pool has workers); one document; no text file; no directory
MainListings ==
    {<<A10, Bplain, A2, A1>>, <<A2, A10, A1, A3>>, <<Bplain>>, <<Cmd>>}

InitMain ==
    /\ ValidatorOff /\ OrchOff
    /\ \/ txt_exists = TRUE /\ listing \in MainListings
       \/ txt_exists = FALSE /\ listing = <<>>
    /\ groups = <<>> /\ sortedGroups = <<>> /\ gpc = "off"
    /\ pc = "start" /\ exam = 0 /\ sorted_files = <<>> /\ submitted = 0
    /\ results = <<>> /\ all_rows = <<>> /\ all_exam_data = <<>>
    /\ successful_conversions = 0
    /\ files = <<>> /\ writes = <<>>
    /\ queue = <<>> /\ running = {} /\ finished = {} /\ yielded = {}
    /\ failed = {} /\ returned = {} /\ merged = <<>>

exam_prefix == groups[exam][1]

\* main(): groups = group_files(); return when there is no group
MainStart ==
    /\ pc = "start"
    /\ groups' = group_files(txt_exists, listing)
    /\ exam' = 1
    /\ pc' = IF groups' = <<>> THEN "done" ELSE "exam"
    /\ UNCHANGED <<vvars, txt_exists, listing, sortedGroups, gpc, sorted_files,
                   submitted, results, all_rows, all_exam_data,
                   successful_conversions, files, writes, pvars, hvars, ovars>>

\* for exam_prefix, files in groups.items(): sort the pages, open the pool
BeginExam ==
    /\ pc = "exam" /\ exam <= Len(groups)
    /\ sorted_files' = sorted_by_page(groups[exam][2])
    /\ results' = <<>>
    /\ submitted' = 0
    /\ queue' = <<>> /\ running' = {} /\ finished' = {} /\ yielded' = {}
    /\ pc' = "submit"
    /\ UNCHANGED <<vvars, gvars, exam, all_rows, all_exam_data,
                   successful_conversions, files, writes, hvars, ovars>>

\* executor.submit(process_page, exam_prefix, filename, extract_page_number(filename))
Submit ==
    /\ pc = "submit" /\ submitted < Len(sorted_files)
    /\ LET filename == sorted_files[submitted + 1]
       IN  queue' = Append(queue, <<exam_prefix, filename, extract_page_number(filename)>>)
    /\ submitted' = submitted + 1
    /\ pc' = IF submitted' = Len(sorted_files) THEN "collect" ELSE "submit"
    /\ UNCHANGED <<vvars, gvars, exam, sorted_files, results, all_rows,
                   all_exam_data, successful_conversions, files, writes, running,
                   finished, yielded, hvars, ovars>>

\* A worker thread of the pool takes the oldest queued task
WorkerStart ==
    /\ queue # <<>> /\ Cardinality(running) < max_workers
    /\ running' = running \cup {Head(queue)}
    /\ queue' = Tail(queue)
    /\ UNCHANGED <<vvars, gvars, mvars, finished, yielded, hvars, ovars>>

\* A worker thread returns from process_page: the future holds the result
WorkerFinish ==
    \E task \in running : \E env \in Environments(task[1], task[3]) :
        LET r == process_page(task[1], task[2], task[3], env)
        IN  /\ running' = running \ {task}
            /\ finished' = finished \cup {r}
            /\ returned' = returned \cup {r}
            /\ failed' = IF Raised(env) THEN failed \cup {task[2]} ELSE failed
            /\ UNCHANGED <<vvars, gvars, mvars, queue, yielded, merged, ovars>>

\* for future in as_completed(futures): results[filename] = csv_output
Collect ==
    /\ pc = "collect"
    /\ \E r \in finished :
          /\ r[1] \notin yielded
          /\ results' = DictSet(results, r[1], r[2])
          /\ yielded' = yielded \cup {r[1]}
    /\ UNCHANGED <<vvars, gvars, pc, exam, sorted_files, submitted, all_rows,
                   all_exam_data, successful_conversions, files, writes, queue,
                   running, finished, hvars, ovars>>

\* A faulty variant of AsCompletedDone: the loop ends with the first result
AsCompletedFirst == yielded # {}

\* as_completed(futures) has yielded every future
AsCompletedDone == yielded = Range(sorted_files)

\* The with block's exit, executor.shutdown(wait=True): no task queued or running
ExecutorShutdown == queue = <<>> /\ running = {}

\* The end of the with block; the pool and its futures are not used again
ExitPool ==
    /\ pc = "collect" /\ AsCompletedDone /\ ExecutorShutdown
    /\ pc' = "merge"
    /\ finished' = {} /\ yielded' = {}
    /\ UNCHANGED <<vvars, gvars, exam, sorted_files, submitted, results, all_rows,
                   all_exam_data, successful_conversions, files, writes, queue,
                   running, hvars, ovars>>

\* all_rows = merge_csv_data(results, sorted_files)
Merge ==
    /\ pc = "merge"
    /\ all_rows' = merge_csv_data(results, sorted_files)
    /\ merged' = Append(merged, <<exam_prefix, sorted_files, all_rows'>>)
    /\ pc' = "save"
    /\ UNCHANGED <<vvars, gvars, exam, sorted_files, submitted, results,
                   all_exam_data, successful_conversions, files, writes, pvars,
                   failed, returned, ovars>>

\* if len(all_rows) > 1: save_individual_csv(exam_prefix, all_rows), and the
\* exam is kept for the combined file when the save returns True.  The exam's
\* results, sorted_files and all_rows are not read again before the next exam
\* rebinds them.
Save ==
    /\ pc = "save"
    /\ LET path == exam_prefix \o CsvExt
       IN  IF ShouldSave(all_rows)
           THEN \E o \in IoOutcomes(all_rows) :
                  /\ writes' = Append(writes, <<path, o.io>>)
                  /\ files' = IF o.io = "open_error" THEN files
                              ELSE WriteFile(files, path,
                                             FileText(SubSeq(all_rows, 1, o.k)))
                  /\ all_exam_data' = IF o.io = "ok"
                                      THEN DictSet(all_exam_data, exam_prefix, all_rows)
                                      ELSE all_exam_data
                  /\ successful_conversions' =
                         IF o.io = "ok" THEN successful_conversions + 1
                         ELSE successful_conversions
           ELSE UNCHANGED <<writes, files, all_exam_data, successful_conversions>>
    /\ exam' = exam + 1
    /\ pc' = "exam"
    /\ results' = <<>> /\ sorted_files' = <<>> /\ submitted' = 0 /\ all_rows' = <<>>
    /\ UNCHANGED <<vvars, gvars, pvars, hvars, ovars>>

\* After the last exam: save_combined_csv when an exam was saved
SaveCombined ==
    /\ pc = "exam" /\ exam > Len(groups)
    /\ IF all_exam_data # <<>>
       THEN LET rows == <<header>> \o CombinedRows(all_exam_data)
            IN  \E o \in IoOutcomes(rows) :
                  /\ writes' = Append(writes, <<combined_name, o.io>>)
                  /\ files' = IF o.io = "open_error" THEN files
                              ELSE WriteFile(files, combined_name,
                                             FileText(SubSeq(rows, 1, o.k)))
       ELSE UNCHANGED <<writes, files>>
    /\ pc' = "done"
    /\ UNCHANGED <<vvars, gvars, exam, sorted_files, submitted, results, all_rows,
                   all_exam_data, successful_conversions, pvars, hvars, ovars>>

Next ==
    \/ MainStart \/ BeginExam \/ Submit \/ WorkerStart \/ WorkerFinish
    \/ Collect \/ ExitPool \/ Merge \/ Save \/ SaveCombined

Spec == InitMain /\ [][Next]_vars


----------------------------------------------------------------------------
\* Claims about ai.py main() (Spec)

\* What process_page returned for a page
ReturnedOf(filename) == (CHOOSE r \in returned : r[1] = filename)[2]

Processed(filename) == \E r \in returned : r[1] = filename

\* The pages are in ascending order of their page numbers
AscendingPages(fs) ==
    \A i, j \in 1..Len(fs) :
        i < j => extract_page_number(fs[i]) <= extract_page_number(fs[j])

\* The surviving rows of one page: the lines of what process_page returned for
\* it that the validator accepts
SurvivingRows(filename) == CleanedRows(SplitLines(ReturnedOf(filename)))

\* The surviving rows of an exam's pages that did not fail, page after page
RowsWithoutFailed(fs) ==
    Flatten([i \in 1..Len(fs) |->
                IF fs[i] \in failed THEN <<>> ELSE SurvivingRows(fs[i])])

\* The lines of a file of the output folder
FileLines(path) == SplitLines(files[path])

Written(path) == \E i \in 1..Len(writes) : writes[i][1] = path

WrittenOk(path) == \E i \in 1..Len(writes) : writes[i] = <<path, "ok">>

\* C1: the data rows merged for an exam are the surviving rows of each of its
\* pages, concatenated in ascending page-number order, whatever the order in
\* which the pool's workers completed and their results were collected.
C1_MergedInPageOrder ==
    pc = "save" =>
        LET fs == sorted_files
        IN  /\ Range(fs) = Range(groups[exam][2]) /\ Len(fs) = Len(groups[exam][2])
            /\ AscendingPages(fs)
            /\ \A i \in 1..Len(fs) : Processed(fs[i])
            /\ all_rows
               = <<header>> \o Flatten([i \in 1..Len(fs) |-> SurvivingRows(fs[i])])

\* An exam was merged whose results were collected in another order than the
\* page order, with rows surviving from more than one page
C1_Witness ==
    /\ pc = "save"
    /\ Keys(results) # sorted_files
    /\ Cardinality({i \in 1..Len(sorted_files) :
                       SurvivingRows(sorted_files[i]) # <<>>}) >= 2
    /\ Len(all_rows) >= 3

\* C2: a page whose read or language-model call failed contributes empty output
\* and nothing else: every page of the exam is still processed, the other
\* pages' surviving rows are the exam's rows, in page order, and every exam
\* group of the batch is merged.
C2_FailedPageOnlyEmpty ==
    /\ \A f \in failed : Processed(f) /\ ReturnedOf(f) = <<>>
    /\ pc = "save" =>
          /\ \A i \in 1..Len(groups[exam][2]) : Processed(groups[exam][2][i])
          /\ AscendingPages(sorted_files)
          /\ all_rows = <<header>> \o RowsWithoutFailed(sorted_files)
    /\ pc = "done" =>
          /\ Len(merged) = Len(groups)
          /\ \A m \in 1..Len(merged) :
                /\ merged[m][1] = groups[m][1]
                /\ Range(merged[m][2]) = Range(groups[m][2])

\* One page of a three-page exam failed, the other two gave rows, and the exam
\* after it was processed too
C2_Witness ==
    /\ pc = "done" /\ Len(merged) = 2
    /\ LET fs == merged[1][2]
       IN  /\ Len(fs) = 3
           /\ Cardinality({i \in 1..3 : fs[i] \in failed}) = 1
           /\ fs[2] \in failed
           /\ Len(merged[1][3]) >= 3
    /\ Len(merged[2][3]) >= 2

\* The sum of len(rows) - 1 over the exams kept for the combined file
RECURSIVE DataRowCount(_)
DataRowCount(data) ==
    IF data = <<>> THEN 0 ELSE (Len(Head(data)[2]) - 1) + DataRowCount(Tail(data))

\* C3: when the combined file was written, its data rows number the sum of
\* (row count - 1) over the per-exam row lists, and the header line is in it
\* exactly once.
C3_CombinedHeaderOnce ==
    (pc = "done" /\ WrittenOk(combined_name)) =>
        LET lines == FileLines(combined_name)
        IN  /\ Len(lines) - 1 = DataRowCount(all_exam_data)
            /\ Cardinality({i \in 1..Len(lines) : lines[i] = header}) = 1

\* C7 as claimed: every exam group, also one without a surviving row, has its
\* per-exam file, the header row and then its rows (unless writing it failed).
C7_EveryExamHasFile ==
    pc = "done" =>
        \A m \in 1..Len(groups) :
            LET path == groups[m][1] \o CsvExt
            IN  (~Written(path) \/ WrittenOk(path)) =>
                    /\ path \in DOMAIN files
                    /\ FileLines(path)[1] = header

\* C7 as amended: for every exam main() is done with, the per-exam file is
\* written, once, exactly when a row survived; a written file is the header row
\* followed by the exam's rows; an exam without a surviving row gets no file.
C7_FileIffRows ==
    \A m \in 1..Len(merged) :
        m < exam =>
            LET path == merged[m][1] \o CsvExt
                rows == merged[m][3]
            IN  /\ rows[1] = header
                /\ Len(rows) > 1 =>
                      /\ Cardinality({i \in 1..Len(writes) : writes[i][1] = path}) = 1
                      /\ WrittenOk(path) =>
                            /\ files[path] = FileText(rows)
                            /\ FileLines(path) = rows
                /\ Len(rows) = 1 => ~Written(path) /\ path \notin DOMAIN files

\* One exam's file was written with its rows, and another exam, without a
\* surviving row, got none
C7_Witness ==
    /\ pc = "done" /\ Len(merged) = 2
    /\ Len(merged[1][3]) > 1 /\ WrittenOk(merged[1][1] \o CsvExt)
    /\ Len(merged[2][3]) = 1 /\ ~Written(merged[2][1] \o CsvExt)

\* C10: a step that writes an output file is a step of the coordinating thread
\* taken when no task of the pool is queued or running; the per-exam file is
\* written with the results of all of the exam's pages collected, the combined
\* file after every exam was merged; the pool's threads write nothing.
C10_WritesAfterWorkers ==
    [][(writes' # writes \/ files' # files) =>
          /\ queue = <<>> /\ running = {}
          /\ pc \in {"save", "exam"} /\ pc' # pc
          /\ UNCHANGED pvars
          /\ pc = "save" =>
                /\ Range(Keys(results)) = Range(groups[exam][2])
                /\ \A f \in Range(groups[exam][2]) : Processed(f)
          /\ pc = "exam" => Len(merged) = Len(groups) /\ exam > Len(groups)]_vars

\* The file of an exam of four pages (more than the pool has workers) and the
\* combined file were written
C10_Witness ==
    /\ pc = "done"
    /\ Len(groups) = 1 /\ Len(groups[1][2]) > max_workers
    /\ WrittenOk(groups[1][1] \o CsvExt) /\ WrittenOk(combined_name)


----------------------------------------------------------------------------
\* The Validator on one line (SpecValidate)

\* The most commas a line of the Validator's inputs has
MaxCommas == 6

Leads == {<<>>, <<" ">>, <<"\t">>, <<"#">>, <<" ", "#">>, NotePrefix, <<"q">>}
Mids == {<<>>, <<"q">>, CsvOutputMarker, <<"c", "s", "v", " ", "o", "u", "t", "p", "u", "t">>}
Tails == {<<>>, <<" ">>, <<"y">>, <<"y", " ", "\t">>}

\* The lines the Validator is given: a lead, a text, n commas, a tail
Lines ==
    {lead \o mid \o [i \in 1..n |-> Comma] \o tail :
        lead \in Leads, mid \in Mids, n \in 0..MaxCommas, tail \in Tails}

InitValidate ==
    /\ row \in Lines /\ cleaned_row = None /\ vpc = "input"
    /\ GrouperOff /\ MainOff /\ OrchOff

\* cleaned_row = validate_csv_row(row)
ValidateRow ==
    /\ vpc = "input"
    /\ cleaned_row' = validate_csv_row(row)
    /\ vpc' = "validated"
    /\ UNCHANGED <<row, gvars, mvars, pvars, hvars, ovars>>

NextValidate == ValidateRow

SpecValidate == InitValidate /\ [][NextValidate]_vars

\* The line has no character that is not whitespace
Blank(r) == \A i \in 1..Len(r) : r[i] \in Whitespace

CommaCount(r) == Cardinality({i \in 1..Len(r) : r[i] = ","})

\* The text occurs in the line
Occurs(r, text) ==
    \E i \in 0..(Len(r) - Len(text)) : \A k \in 1..Len(text) : r[i + k] = text[k]

Begins(r, text) ==
    Len(r) >= Len(text) /\ \A k \in 1..Len(text) : r[k] = text[k]

\* t is r without its leading and trailing whitespace
Trimmed(r, t) ==
    \E i, j \in 1..Len(r) :
        /\ i <= j /\ r[i] \notin Whitespace /\ r[j] \notin Whitespace
        /\ \A k \in 1..Len(r) : (k < i \/ k > j) => r[k] \in Whitespace
        /\ Len(t) = j - i + 1
        /\ \A k \in 1..Len(t) : t[k] = r[i + k - 1]

----------------------------------------------------------------------------
\* The Grouper on one directory (SpecGroup)

\* The most files the directory holds
MaxListing == 3

AB2 == <<"a">> \o PageSep \o <<"b">> \o PageSep \o <<"2">> \o TxtExt
AB10 == <<"a">> \o PageSep \o <<"b">> \o PageSep \o <<"1", "0">> \o TxtExt
Aplain == <<"a">> \o TxtExt

\* The files named {id}_page_{n}.txt, with the id and the n of each
ConventionFiles ==
    {[name |-> A1, id |-> <<"a">>, n |-> 1],
     [name |-> A2, id |-> <<"a">>, n |-> 2],
     [name |-> A10, id |-> <<"a">>, n |-> 10],
     [name |-> AB2, id |-> <<"a">> \o PageSep \o <<"b">>, n |-> 2],
     [name |-> AB10, id |-> <<"a">> \o PageSep \o <<"b">>, n |-> 10]}

\* The .txt files without the page suffix, with the name less the extension
PlainFiles ==
    {[name |-> Aplain, base |-> <<"a">>], [name |-> Bplain, base |-> <<"b">>]}

GroupNames ==
    {c.name : c \in ConventionFiles} \cup {p.name : p \in PlainFiles} \cup {Cmd}

\* What os.listdir can give: the files of a directory, in any order
Listings ==
    UNION {Orderings(d) : d \in {d \in SUBSET GroupNames : Cardinality(d) <= MaxListing}}

InitGroup ==
    /\ txt_exists = TRUE /\ listing \in Listings
    /\ groups = <<>> /\ sortedGroups = <<>> /\ gpc = "input"
    /\ ValidatorOff /\ MainOff /\ OrchOff

\* groups = group_files(), and of each group sorted(files, key=extract_page_number)
GroupAndSort ==
    /\ gpc = "input"
    /\ groups' = group_files(txt_exists, listing)
    /\ sortedGroups' = [i \in 1..Len(groups') |->
                           <<groups'[i][1], sorted_by_page(groups'[i][2])>>]
    /\ gpc' = "grouped"
    /\ UNCHANGED <<vvars, txt_exists, listing, mvars, pvars, hvars, ovars>>

NextGroup == GroupAndSort

SpecGroup == InitGroup /\ [][NextGroup]_vars

\* The n of a file named {id}_page_{n}.txt
PageOf(name) == (CHOOSE c \in ConventionFiles : c.name = name).n

IsConvention(name) == \E c \in ConventionFiles : c.name = name

\* C5: every file named {id}_page_{n}.txt is in the group keyed by its id, and
\* the files of a group are processed in ascending order of n.
C5_GroupedByIdInPageOrder ==
    gpc = "grouped" =>
        /\ \A c \in ConventionFiles :
              c.name \in Range(listing) =>
                  /\ HasKey(groups, c.id)
                  /\ c.name \in Range(Get(groups, c.id))
        /\ \A g \in 1..Len(sortedGroups) :
              LET fs == sortedGroups[g][2]
              IN  \A i, j \in 1..Len(fs) :
                     (i < j /\ IsConvention(fs[i]) /\ IsConvention(fs[j]))
                         => PageOf(fs[i]) <= PageOf(fs[j])

\* C6: every .txt file without the page suffix is alone in a group keyed by its
\* name less the extension, whatever else the directory holds.
C6_PlainFileSingleton ==
    gpc = "grouped" =>
        \A p \in PlainFiles :
            p.name \in Range(listing) =>
                /\ HasKey(groups, p.base)
                /\ Get(groups, p.base) = <<p.name>>


----------------------------------------------------------------------------
\* pdf_reader.py and main.py (SpecOrch)

\* The most pages a PDF has
MaxPageCount == 2

Xpdf == <<"x">> \o PdfExt
YPDF == <<"y", ".", "P", "D", "F">>
Ntxt == <<"n">> \o TxtExt

\* What the PDF folder can hold
PdfNames == {Xpdf, YPDF, Ntxt}

\* The text layer of a page, and the texts OCR finds in its images
PageTexts == {<<>>, <<"t">>}
OcrTexts == {<<>>, <<<<"o">>>>}

\* os.path.splitext(name)[0]: up to the last dot, when a dot follows a character
\* that is not a dot
SplitExtRoot(name) ==
    LET dots == {i \in 1..Len(name) : name[i] = "."}
        last == Len(name) + 1 - Min({k \in 1..Len(name) : name[Len(name) + 1 - k] = "."})
    IN  IF dots = {} THEN name
        ELSE IF \A i \in 1..(last - 1) : name[i] = "." THEN name
        ELSE SubSeq(name, 1, last - 1)

\* [f for f in os.listdir(pdf_folder) if f.lower().endswith(".pdf")]
PdfFilesOf(names) == SelectSeq(names, LAMBDA f : EndsWith(Lower(f), PdfExt))

\* combined_text: the text layer, then the OCR texts after a blank line
CombinedText(page_text, ocr_texts) ==
    IF ocr_texts # <<>>
    THEN page_text \o <<"\n", "\n">> \o Join(ocr_texts, <<"\n", "\n">>)
    ELSE page_text

\* f"{filename}_page_{page_num + 1}.txt"
PageFileName(filename, n) == filename \o PageSep \o ToStr(n + 1) \o TxtExt

\* f"\n\n--- Page {page_num + 1} ---\n{combined_text}"
PageBlock(n, combined_text) ==
    <<"\n", "\n", "-", "-", "-", " ", "P", "a", "g", "e", " ">> \o ToStr(n + 1)
    \o <<" ", "-", "-", "-", "\n">> \o combined_text

\* A faulty variant of run_script: subprocess.run without check=True
run_script_unchecked(returncode) == "returned"

\* run_script: check=True raises CalledProcessError on a non-zero return code,
\* and the handler calls sys.exit(1)
run_script(returncode) == IF returncode # 0 THEN "sys_exit" ELSE "returned"

InitOrch ==
    /\ ValidatorOff /\ GrouperOff /\ MainOff
    /\ opc = "step1" /\ oexit = -1 /\ rpc = "off" /\ rexit = -1 /\ rerror = "none"
    /\ save_mode \in {"separate", "combined"}
    /\ pdf_dir \in UNION {Orderings(d) : d \in SUBSET PdfNames}
    /\ pdf_files = <<>> /\ pidx = 0 /\ page_num = 0 /\ page_count = 0
    /\ extracted_text = <<>> /\ txt_dir = <<>> /\ visited = {} /\ open_failed = {}
    /\ ai_started = FALSE

\* main(): run_script("pdf_reader.py") starts the extraction stage
OrchStep1 ==
    /\ opc = "step1"
    /\ opc' = "wait1"
    /\ rpc' = "start"
    /\ UNCHANGED <<vvars, gvars, mvars, pvars, hvars, oexit, rexit, rerror,
                   save_mode, pdf_dir, pdf_files, pidx, page_num, page_count,
                   extracted_text, txt_dir, visited, open_failed, ai_started>>

\* The extraction stage ends on an exception nothing catches: exit code 1
Crash(why) == rpc' = "exited" /\ rexit' = 1 /\ rerror' = why

\* process_all_pdfs: the list of the PDF folder's .pdf files
ReaderList ==
    /\ rpc = "start"
    /\ \/ /\ pdf_files' = PdfFilesOf(pdf_dir)
          /\ pidx' = 1
          /\ rpc' = "loop"
          /\ UNCHANGED <<rexit, rerror>>
       \/ /\ Crash("listdir")
          /\ UNCHANGED <<pdf_files, pidx>>
    /\ UNCHANGED <<vvars, gvars, mvars, pvars, hvars, opc, oexit, save_mode,
                   pdf_dir, page_num, page_count, extracted_text, txt_dir,
                   visited, open_failed, ai_started>>

\* extract_text_from_pdf: fitz.open; a PDF that does not open is reported
ReaderOpen ==
    /\ rpc = "loop" /\ pidx <= Len(pdf_files)
    /\ visited' = visited \cup {pdf_files[pidx]}
    /\ \/ /\ open_failed' = open_failed \cup {pdf_files[pidx]}
          /\ pidx' = pidx + 1
          /\ UNCHANGED <<rpc, page_num, page_count, extracted_text>>
       \/ /\ page_count' \in 0..MaxPageCount
          /\ page_num' = 0
          /\ extracted_text' = <<>>
          /\ rpc' = "pages"
          /\ UNCHANGED <<open_failed, pidx>>
    /\ UNCHANGED <<vvars, gvars, mvars, pvars, hvars, opc, oexit, rexit, rerror,
                   save_mode, pdf_dir, pdf_files, txt_dir, ai_started>>

filename_of_pdf == SplitExtRoot(pdf_files[pidx])

\* extract_text_from_pdf: one page, its text and OCR, saved per mode
ReaderPage ==
    /\ rpc = "pages" /\ page_num < page_count
    /\ \/ \E page_text \in PageTexts, ocr_texts \in OcrTexts :
            LET combined_text == CombinedText(page_text, ocr_texts)
            IN  /\ IF save_mode = "separate"
                   THEN /\ txt_dir' = WriteFile(txt_dir,
                                         PageFileName(filename_of_pdf, page_num),
                                         combined_text)
                        /\ UNCHANGED extracted_text
                   ELSE /\ extracted_text' =
                              Append(extracted_text, PageBlock(page_num, combined_text))
                        /\ UNCHANGED txt_dir
                /\ page_num' = page_num + 1
                /\ UNCHANGED <<rpc, rexit, rerror>>
       \/ /\ Crash("extract")
          /\ UNCHANGED <<txt_dir, extracted_text, page_num>>
       \/ /\ save_mode = "separate"
          /\ Crash("open_txt")
          /\ UNCHANGED <<txt_dir, extracted_text, page_num>>
       \/ /\ save_mode = "separate"
          /\ Crash("write_txt")
          /\ txt_dir' = WriteFile(txt_dir, PageFileName(filename_of_pdf, page_num), <<>>)
          /\ UNCHANGED <<extracted_text, page_num>>
    /\ UNCHANGED <<vvars, gvars, mvars, pvars, hvars, opc, oexit, save_mode,
                   pdf_dir, pdf_files, pidx, page_count, visited, open_failed,
                   ai_started>>

\* extract_text_from_pdf: document.close(), the combined artifact in combined mode
ReaderClose ==
    /\ rpc = "pages" /\ page_num = page_count
    /\ \/ /\ IF save_mode = "combined" /\ extracted_text # <<>>
             THEN txt_dir' = WriteFile(txt_dir, filename_of_pdf \o TxtExt,
                                       Join(extracted_text, <<"\n">>))
             ELSE UNCHANGED txt_dir
          /\ pidx' = pidx + 1
          /\ rpc' = "loop"
          /\ UNCHANGED <<rexit, rerror>>
       \/ /\ save_mode = "combined" /\ extracted_text # <<>>
          /\ Crash("open_txt")
          /\ UNCHANGED <<txt_dir, pidx>>
    /\ UNCHANGED <<vvars, gvars, mvars, pvars, hvars, opc, oexit, save_mode,
                   pdf_dir, pdf_files, page_num, page_count, extracted_text,
                   visited, open_failed, ai_started>>

\* process_all_pdfs returns after the last PDF: exit code 0
ReaderDone ==
    /\ rpc = "loop" /\ pidx > Len(pdf_files)
    /\ rpc' = "exited"
    /\ rexit' = 0
    /\ UNCHANGED <<vvars, gvars, mvars, pvars, hvars, opc, oexit, rerror, save_mode,
                   pdf_dir, pdf_files, pidx, page_num, page_count,
                   extracted_text, txt_dir, visited, open_failed, ai_started>>

\* run_script("pdf_reader.py") ends with the extraction stage's return code
OrchStep1Return ==
    /\ opc = "wait1" /\ rpc = "exited"
    /\ IF run_script(rexit) = "sys_exit"
       THEN opc' = "exited" /\ oexit' = 1
       ELSE opc' = "step2" /\ UNCHANGED oexit
    /\ UNCHANGED <<vvars, gvars, mvars, pvars, hvars, rpc, rexit, rerror, save_mode,
                   pdf_dir, pdf_files, pidx, page_num, page_count,
                   extracted_text, txt_dir, visited, open_failed, ai_started>>

\* main(): run_script("ai.py") starts the row-extraction stage
OrchStep2 ==
    /\ opc = "step2"
    /\ ai_started' = TRUE
    /\ opc' = "wait2"
    /\ UNCHANGED <<vvars, gvars, mvars, pvars, hvars, oexit, rpc, rexit, rerror,
                   save_mode, pdf_dir, pdf_files, pidx, page_num, page_count,
                   extracted_text, txt_dir, visited, open_failed>>

\* run_script("ai.py") ends with the row-extraction stage's return code
OrchStep2Return ==
    /\ opc = "wait2"
    /\ \E returncode \in {0, 1} :
          IF run_script(returncode) = "sys_exit"
          THEN opc' = "exited" /\ oexit' = 1
          ELSE opc' = "done" /\ oexit' = 0
    /\ UNCHANGED <<vvars, gvars, mvars, pvars, hvars, rpc, rexit, rerror, save_mode,
                   pdf_dir, pdf_files, pidx, page_num, page_count,
                   extracted_text, txt_dir, visited, open_failed, ai_started>>

NextOrch ==
    \/ OrchStep1 \/ ReaderList \/ ReaderOpen \/ ReaderPage \/ ReaderClose
    \/ ReaderDone \/ OrchStep1Return \/ OrchStep2 \/ OrchStep2Return

SpecOrch == InitOrch /\ [][NextOrch]_vars

\* The text artifacts a PDF left in the text-artifact directory
ArtifactsOf(pdf) ==
    {name \in DOMAIN txt_dir :
        \/ name = SplitExtRoot(pdf) \o TxtExt
        \/ \E n \in 0..MaxPageCount : name = PageFileName(SplitExtRoot(pdf), n)}

\* C8: an I/O error on one unit skips only that unit: when the extraction stage
\* has ended and nothing but I/O errors on PDFs and text artifacts occurred, it
\* went through every PDF and ended normally, and a PDF that did not open left
\* no artifact.
C8_IoErrorSkipsUnit ==
    (rpc = "exited" /\ rerror \in {"none", "open_txt", "write_txt"}) =>
        /\ \A i \in 1..Len(PdfFilesOf(pdf_dir)) : PdfFilesOf(pdf_dir)[i] \in visited
        /\ rexit = 0
        /\ \A pdf \in open_failed : ArtifactsOf(pdf) = {}

\* C9: the row-extraction stage is started only after the extraction stage has
\* ended, with exit code 0 and every PDF gone through; after a non-zero exit of
\* the extraction stage it is never started, and the orchestrator ends with a
\* non-zero exit code.
C9_StagesInSequence ==
    /\ ai_started =>
          /\ rpc = "exited" /\ rexit = 0
          /\ \A i \in 1..Len(PdfFilesOf(pdf_dir)) : PdfFilesOf(pdf_dir)[i] \in visited
    /\ (rpc = "exited" /\ rexit # 0) =>
          /\ ~ai_started
          /\ opc \in {"wait1", "exited"}
          /\ opc = "exited" => oexit # 0

\* The extraction stage ended with exit code 1 after its first PDF, and the
\* orchestrator exited with 1 without starting the row-extraction stage
C9_Witness ==
    /\ rpc = "exited" /\ rexit = 1 /\ visited # {}
    /\ opc = "exited" /\ oexit = 1 /\ ~ai_started

====
